---- MODULE Spec2Model ----
(***************************************************************************)
(* pygumroad.core.GumroadClient: the request dispatcher (api_query) with   *)
(* its retry loop, the resource accessors, the paginated sales collection  *)
(* and the offer-code generator, as one sequential state machine.          *)
(*                                                                         *)
(* A Python dict is a function from its keys to its values; an argument    *)
(* that may or may not be a dict is the record [isdict, d].  A Python      *)
(* value returned by an operation is the record [t, v] (t its type).       *)
(* A string that the code builds character by character (an offer code)    *)
(* is a sequence of one-character strings.                                 *)
(***************************************************************************)
EXTENDS Integers, Sequences, FiniteSets, TLC

VARIABLES
    self,          \* the client's attributes set by __init__
    heap,          \* the dict objects that outlive a statement: the def-time
                   \* default payloads of the accessors and the caller's dict
    pc,            \* "idle", "sending", "drawing", "done", "raised", "exited"
    op,            \* the public method being executed
    err,           \* the exception that left the method (pc = "raised")
    result,        \* the value the method returned (pc = "done")
    kw,            \* the keyword arguments of the current api_query call
    payloadRef,    \* which heap object the accessor's payload parameter names
    payloadBefore, \* that object's content when the accessor was called
    req,           \* api_query locals: url, method, merged headers and payload
    attempts,      \* api_query local: the failed-request counter
    calls,         \* api_query calls made by the method so far
    sends,         \* requests.get/post/put/delete calls made by this api_query call
    failures,      \* transport exceptions those calls raised
    lastSent,      \* the request the most recent send put on the wire
    pageArg,       \* the page argument retrieve_sales / retrieve_all_sales got
    page,          \* retrieve_sales / retrieve_all_sales local
    all_sales,     \* retrieve_all_sales local
    served,        \* the envelopes answered to this method, with the page asked
    offer_code_length,
    current_offer_codes,
    draws          \* the random strings drawn by generate_new_offer_code_for_a_product

vars == <<self, heap, pc, op, err, result, kw, payloadRef, payloadBefore, req,
          attempts, calls, sends, failures, lastSent, pageArg, page, all_sales,
          served, offer_code_length, current_offer_codes, draws>>

(* ------------------------------ bounds -------------------------------- *)
MaxAttemptsCfg == 3     \* SpecDispatcher draws max_attempts from 1..MaxAttemptsCfg
MaxPages == 3           \* the longest page series the server answers
MaxDraws == 3           \* random draws per generate call
MaxCodeLen == 2         \* offer_code_length is drawn from 0..MaxCodeLen

(* --------------------------- Python values ---------------------------- *)
EmptyDict == [k \in {} |-> ""]
Mapping(d) == [isdict |-> TRUE, d |-> d]
NotMapping == [isdict |-> FALSE, d |-> EmptyDict]

PyNone == [t |-> "None", v |-> <<>>]
EmptyList == [t |-> "list", v |-> <<>>]
Value(t, v) == [t |-> t, v |-> v]

NullUrl == "None"
Truthy(s) == s # NullUrl /\ s # ""

\* A faulty merge: the first dict wins where both hold a key.
Merge_FirstWins(a, b) ==
    [k \in (DOMAIN a) \cup (DOMAIN b) |-> IF k \in DOMAIN a THEN a[k] ELSE b[k]]

\* {**a, **b}
Merge(a, b) ==
    [k \in (DOMAIN a) \cup (DOMAIN b) |-> IF k \in DOMAIN b THEN b[k] ELSE a[k]]

SetItem(d, k, x) == [j \in (DOMAIN d) \cup {k} |-> IF j = k THEN x ELSE d[j]]

(* ------------------------------ __init__ ------------------------------ *)
Token == "tok"
Host == "api.gumroad.com"
UserAgent == "pygumroad-api-client-v0.0.1"

Client(max_attempts) ==
    [ host |-> Host,
      token |-> Token,
      BASE_URL |-> <<"https://", Host>>,
      user_agent |-> UserAgent,
      headers |-> ("User-Agent" :> UserAgent),
      payload |-> ("access_token" :> Token),
      timeout |-> 30,
      max_attempts |-> max_attempts,
      max_results_returned_from_api |-> 10,
      base_path |-> "/v2",
      api_self_signed |-> FALSE,
      debug_print |-> FALSE ]

(* ------------------------------ api_query ----------------------------- *)
SupportedMethods == {"GET", "POST", "PUT", "DELETE"}

Upper(m) ==
    CASE m = "get" -> "GET"
      [] m = "post" -> "POST"
      [] m = "put" -> "PUT"
      [] m = "delete" -> "DELETE"
      [] m = "patch" -> "PATCH"
      [] OTHER -> m

NoReq == [url |-> <<>>, method |-> "", headers |-> EmptyDict, payload |-> EmptyDict]
NoSent == [method |-> "", url |-> <<>>, headers |-> EmptyDict, payload |-> EmptyDict,
           body |-> "", verify |-> TRUE, timeout |-> 0]
NoKw == [headers |-> Mapping(EmptyDict), method |-> "", parameters |-> Mapping(EmptyDict),
         payload |-> Mapping(EmptyDict)]

Kwargs(headers, method, parameters, payload) ==
    [headers |-> headers, method |-> method, parameters |-> parameters, payload |-> payload]

\* Lines 106-133 and the method test of the first loop iteration: what the
\* call raises before any request is made, or the locals the loop works with.
ApiQueryEntry(endpoint, kwargs) ==
    IF ~kwargs.headers.isdict THEN [err |-> "ValueError", req |-> NoReq]
    ELSE IF ~kwargs.parameters.isdict THEN [err |-> "ValueError", req |-> NoReq]
    ELSE IF ~kwargs.payload.isdict THEN [err |-> "TypeError", req |-> NoReq]
    ELSE IF Upper(kwargs.method) \notin SupportedMethods
         THEN [err |-> "ValueError", req |-> NoReq]
    ELSE [err |-> "",
          req |-> [url |-> self.BASE_URL \o endpoint,
                   method |-> Upper(kwargs.method),
                   headers |-> Merge(self.headers, kwargs.headers.d),
                   payload |-> Merge(self.payload, kwargs.payload.d)]]

\* The request one requests.<method>(...) call sends.
Wire(r) ==
    [method |-> r.method, url |-> r.url, headers |-> r.headers, payload |-> r.payload,
     body |-> IF r.method = "GET" THEN "data" ELSE "json",
     verify |-> ~self.api_self_signed, timeout |-> self.timeout]

\* What one requests call may raise: the transport failures, and an
\* exception of requests that is none of them.
TransportExceptions == {"ConnectTimeout", "ReadTimeout", "ConnectionError"}
RaisedBySend == TransportExceptions \cup {"TooManyRedirects"}

\* A faulty except clause: ReadTimeout is not listed.
Caught_NoReadTimeout(exc) == exc \in {"ConnectTimeout", "ConnectionError"}

\* The except clause of the retry loop.
Caught(exc) == exc \in {"ConnectTimeout", "ReadTimeout", "ConnectionError"}

Exhausted(max_attempts, n) == max_attempts < n

ExpectedStatus(method, status) ==
    CASE method = "GET" -> status = 200
      [] method = "POST" -> status \in {200, 201}
      [] method = "PUT" -> status = 200
      [] method = "DELETE" -> status = 204

\* A faulty loop: only a response with the expected status ends it.
Breaks_OnlyExpected(method, status) == ExpectedStatus(method, status)

\* Every branch of the loop ends in break once requests returned a response.
Breaks(method, status) == TRUE

StatusCodes == {200, 201, 204, 404, 500}


(* --------------------------- the API server --------------------------- *)
SimpleAccessors == {"retrieve_all_products", "retrieve_product_info",
                    "retrieve_offer_codes_for_product",
                    "retrieve_offer_code_details_for_product"}
PayloadAccessors == {"create_offer_code_for_product", "retrieve_sales"}
OfferCodeOps == {"retrieve_all_offer_code_names_for_a_product",
                 "generate_new_offer_code_for_a_product"}

\* The envelope key each method projects out.
ResourceKey(o) ==
    CASE o = "retrieve_all_products" -> "products"
      [] o = "retrieve_product_info" -> "product"
      [] o = "retrieve_offer_codes_for_product" -> "offer_codes"
      [] o = "retrieve_offer_code_details_for_product" -> "offer_code"
      [] o = "create_offer_code_for_product" -> "offer_code"
      [] o = "retrieve_sales" -> "sales"
      [] o = "retrieve_all_sales" -> "sales"
      [] o = "retrieve_all_offer_code_names_for_a_product" -> "offer_codes"
      [] o = "generate_new_offer_code_for_a_product" -> "offer_codes"

\* The value each method returns when the envelope says success false.
DefaultFor(o) ==
    CASE o = "retrieve_all_products" -> PyNone
      [] o = "retrieve_product_info" -> PyNone
      [] o = "retrieve_offer_codes_for_product" -> EmptyList
      [] o = "retrieve_offer_code_details_for_product" -> PyNone
      [] o = "create_offer_code_for_product" -> EmptyList
      [] o = "retrieve_sales" -> EmptyList
      [] o = "retrieve_all_sales" -> EmptyList
      [] o = "retrieve_all_offer_code_names_for_a_product" -> EmptyList
      [] o = "generate_new_offer_code_for_a_product" -> EmptyList

\* The JSON type of each resource: a collection is an array, a single
\* resource an object.
TypeOfKey(key) == IF key \in {"products", "offer_codes", "sales"} THEN "list" ELSE "dict"

Alphabet == {"a", "7"}     \* of string.ascii_lowercase + string.digits
Code1 == <<"a">>
Code2 == <<"a", "7">>
Code3 == <<"7", "7">>

OfferCodeLists == { <<>>,
                    << [name |-> Code1] >>,
                    << [name |-> Code2], [name |-> <<"a", "a">>], [name |-> Code3] >> }

SalesOnPage(p) == << 10 * p + 1, 10 * p + 2 >>

NextUrl == "https://api.gumroad.com/v2/sales?page=next"

DataFor(key, p) ==
    CASE key = "products" -> { << [id |-> "p1"] >> }
      [] key = "product" -> { [id |-> "p1"] }
      [] key = "offer_codes" -> OfferCodeLists
      [] key = "offer_code" -> { [name |-> Code1] }
      [] key = "sales" -> { SalesOnPage(p) }

\* The envelopes the server may answer for a resource: success true with the
\* resource, success true without it, success false with or without it.
Envelopes(key, p) ==
    LET ok == { ("success" :> TRUE) @@ (key :> d) : d \in DataFor(key, p) }
        odd == { "success" :> TRUE }
        bad == { ("success" :> FALSE) @@ ("message" :> "not found"),
                 ("success" :> FALSE) @@ (key :> (CHOOSE d \in DataFor(key, p) : TRUE)) }
        base == ok \cup odd \cup bad
    IN  IF key = "sales"
        THEN { e @@ n : e \in base,
                        n \in { EmptyDict, "next_page_url" :> NullUrl,
                                "next_page_url" :> NextUrl } }
        ELSE base

Response(status, env) == Value("response", [status_code |-> status, json |-> env])

(* ------------------------- resource accessors ------------------------- *)
\* A faulty test: any envelope that has the key counts as a success.
IsSuccess_KeyPresent(env) == "success" \in DOMAIN env

\* json_response["success"] is True
IsSuccess(env) == env["success"] = TRUE

\* "if json_response['success'] is True: x = json_response[key]" after
\* "x = default": the value returned, or the KeyError raised.
Project(o, env) ==
    IF IsSuccess(env)
    THEN IF ResourceKey(o) \in DOMAIN env
         THEN [err |-> "", val |-> Value(TypeOfKey(ResourceKey(o)), env[ResourceKey(o)])]
         ELSE [err |-> "KeyError", val |-> PyNone]
    ELSE [err |-> "", val |-> DefaultFor(o)]

\* A faulty test: a null next_page_url continues the loop.
ContinuePaging_KeyOnly(env) == "next_page_url" \in DOMAIN env

\* retrieve_all_sales: whether another page is fetched after this envelope.
ContinuePaging(env) ==
    "next_page_url" \in DOMAIN env /\ Truthy(env["next_page_url"])

NextPage(p) == p + 1

\* retrieve_all_offer_code_names_for_a_product: the names of the offer codes.
Names(offer_codes) == [i \in 1..Len(offer_codes) |-> offer_codes[i].name]

\* A faulty test: no name is ever taken as existing.
Collides_Never(name, codes) == FALSE

\* "new_offer_code_name in current_offer_codes"
Collides(name, codes) == \E i \in 1..Len(codes) : codes[i] = name

\* "".join(random.choice(...) for _ in range(n)): the strings it can produce.
RandomCodes(n) == [1..n -> Alphabet]


(* ------------------------------- inputs ------------------------------- *)
MethodArgs == {"GET", "POST", "PUT", "DELETE", "get", "PATCH"}
HeaderArgs == {Mapping(EmptyDict), Mapping("Accept" :> "application/json"), NotMapping}
ParameterArgs == {Mapping(EmptyDict), NotMapping}
CallerPayloads == {EmptyDict, "name" :> "x", "access_token" :> "other", "page" :> 7}
CallerObjects == {Mapping(d) : d \in CallerPayloads} \cup {NotMapping}

\* The objects the payload parameter of accessor o can name: the default
\* created when the method was defined, or a dict of the caller's.
AccessorPayloads == {EmptyDict, "access_token" :> "other", "page" :> 7}
PayloadArgs(o) ==
    {[ref |-> o, obj |-> heap[o]]}
        \cup {[ref |-> "caller", obj |-> Mapping(d)] : d \in AccessorPayloads}
        \cup {[ref |-> "caller", obj |-> NotMapping]}

DefaultObjects == {"create_offer_code_for_product", "retrieve_sales", "retrieve_all_sales"}

StartPages == {1, 2}    \* the page argument: its default, or a later page

SuppliedCodes == { <<>>, <<Code1>>, <<Code2, Code3>> }

(* ------------------------------- state -------------------------------- *)
DefaultMaxAttempts == 3

Constructed(max_attempts) ==
    /\ self = Client(max_attempts)
    /\ heap = [o \in DefaultObjects \cup {"caller"} |-> Mapping(EmptyDict)]
    /\ pc = "idle"
    /\ op = "none"
    /\ err = ""
    /\ result = PyNone
    /\ kw = NoKw
    /\ payloadRef = "none"
    /\ payloadBefore = Mapping(EmptyDict)
    /\ req = NoReq
    /\ attempts = 0
    /\ calls = 0
    /\ sends = 0
    /\ failures = 0
    /\ lastSent = NoSent
    /\ pageArg = 0
    /\ page = 0
    /\ all_sales = <<>>
    /\ served = <<>>
    /\ offer_code_length = 0
    /\ current_offer_codes = <<>>
    /\ draws = <<>>

\* A client built with the default configuration.
Init == Constructed(DefaultMaxAttempts)

\* A client built with max_attempts=m.
InitDispatcher == \E m \in 1..MaxAttemptsCfg : Constructed(m)

\* self.api_query(endpoint, **kwargs) up to the first request.
Dispatch(endpoint, kwargs) ==
    LET e == ApiQueryEntry(endpoint, kwargs) IN
    /\ kw' = kwargs
    /\ req' = e.req
    /\ attempts' = 0
    /\ calls' = calls + 1
    /\ sends' = 0
    /\ failures' = 0
    /\ err' = e.err
    /\ pc' = IF e.err = "" THEN "sending" ELSE "raised"

Get(payload) == Kwargs(Mapping(EmptyDict), "GET", Mapping(EmptyDict), payload)
Post(payload) == Kwargs(Mapping(EmptyDict), "POST", Mapping(EmptyDict), payload)

Enter(o) ==
    /\ pc = "idle"
    /\ op' = o
    /\ UNCHANGED <<self, result, lastSent, all_sales, served, draws>>

(* --------------------------- calls: entry ----------------------------- *)
ApiQuery ==
    \E h \in HeaderArgs, m \in MethodArgs, ps \in ParameterArgs, pl \in CallerObjects :
        /\ Enter("api_query")
        /\ Dispatch(<<"/v2/products">>, Kwargs(h, m, ps, pl))
        /\ UNCHANGED <<heap, payloadRef, payloadBefore, pageArg, page, offer_code_length,
                       current_offer_codes>>

SimpleAccessor(o, endpoint) ==
    /\ Enter(o)
    /\ Dispatch(endpoint, Get(Mapping(EmptyDict)))
    /\ UNCHANGED <<heap, payloadRef, payloadBefore, pageArg, page, offer_code_length,
                   current_offer_codes>>

RetrieveAllProducts == SimpleAccessor("retrieve_all_products", <<"/v2/products">>)

RetrieveProductInfo == SimpleAccessor("retrieve_product_info", <<"/v2/products/", "p1">>)

RetrieveOfferCodesForProduct ==
    SimpleAccessor("retrieve_offer_codes_for_product",
                   <<"/v2/products/", "p1", "/offer_codes">>)

RetrieveOfferCodeDetailsForProduct ==
    SimpleAccessor("retrieve_offer_code_details_for_product",
                   <<"/v2/products/", "p1", "/offer_codes/", "oc1">>)

RetrieveAllOfferCodeNamesForAProduct ==
    SimpleAccessor("retrieve_all_offer_code_names_for_a_product",
                   <<"/v2/products/", "p1", "/offer_codes">>)

CreateOfferCodeForProduct ==
    \E a \in PayloadArgs("create_offer_code_for_product") :
        /\ Enter("create_offer_code_for_product")
        /\ heap' = [heap EXCEPT ![a.ref] = a.obj]
        /\ payloadRef' = a.ref
        /\ payloadBefore' = a.obj
        /\ Dispatch(<<"/v2/products/", "p1", "/offer_codes">>, Post(a.obj))
        /\ UNCHANGED <<pageArg, page, offer_code_length, current_offer_codes>>

\* retrieve_sales and retrieve_all_sales begin alike: payload["page"] = page
\* writes into the object the parameter names, then /v2/sales is queried.
SalesEntry(o) ==
    \E a \in PayloadArgs(o), p \in StartPages :
        /\ Enter(o)
        /\ payloadRef' = a.ref
        /\ payloadBefore' = a.obj
        /\ pageArg' = p
        /\ page' = p
        /\ UNCHANGED <<offer_code_length, current_offer_codes>>
        /\ IF a.obj.isdict
           THEN /\ heap' = [heap EXCEPT ![a.ref] = Mapping(SetItem(a.obj.d, "page", p))]
                /\ Dispatch(<<"/v2/sales">>, Get(heap'[a.ref]))
           ELSE /\ heap' = [heap EXCEPT ![a.ref] = a.obj]
                /\ pc' = "raised"
                /\ err' = "TypeError"
                /\ UNCHANGED <<kw, req, attempts, calls, sends, failures>>

RetrieveSales == SalesEntry("retrieve_sales")

RetrieveAllSales == SalesEntry("retrieve_all_sales")

GenerateNewOfferCodeForAProduct ==
    \E n \in 0..MaxCodeLen, codes \in SuppliedCodes :
        /\ Enter("generate_new_offer_code_for_a_product")
        /\ offer_code_length' = n
        /\ current_offer_codes' = codes
        /\ UNCHANGED <<heap, payloadRef, payloadBefore, pageArg, page>>
        /\ IF codes = <<>>
           THEN Dispatch(<<"/v2/products/", "p1", "/offer_codes">>, Get(Mapping(EmptyDict)))
           ELSE /\ pc' = "drawing"
                /\ UNCHANGED <<kw, req, attempts, calls, sends, failures, err>>

(* ------------------------- the retry loop ----------------------------- *)
\* One requests.<method>(...) call that raises.
SendFails ==
    \E exc \in RaisedBySend :
        /\ pc = "sending"
        /\ sends' = sends + 1
        /\ lastSent' = Wire(req)
        /\ IF Caught(exc)
           THEN /\ attempts' = attempts + 1
                /\ failures' = failures + 1
                /\ pc' = IF Exhausted(self.max_attempts, attempts') THEN "exited" ELSE pc
                /\ err' = err
           ELSE /\ pc' = "raised"
                /\ err' = exc
                /\ UNCHANGED <<attempts, failures>>
        /\ UNCHANGED <<self, heap, op, result, kw, payloadRef, payloadBefore, req, calls,
                       pageArg, page, all_sales, served, offer_code_length,
                       current_offer_codes, draws>>

\* One requests.<method>(...) call that returns a response: the part of the
\* step every caller shares.
Receive(status) ==
    /\ pc = "sending"
    /\ lastSent' = Wire(req)
    /\ UNCHANGED pageArg

\* The loop does not end (no branch of the source does this).
Again ==
    /\ sends' = sends + 1
    /\ UNCHANGED <<self, heap, pc, op, err, result, kw, payloadRef, payloadBefore, req,
                   attempts, calls, failures, page, all_sales, served, offer_code_length,
                   current_offer_codes, draws>>

\* api_query called directly: the response is the return value.
ApiQueryReturns ==
    /\ op = "api_query"
    /\ \E status \in StatusCodes :
        LET response == Response(status, "success" :> TRUE) IN
        /\ Receive(status)
        /\ sends' = sends + 1
        /\ served' = Append(served, [payload |-> req.payload, response |-> response])
        /\ IF Breaks(req.method, status)
           THEN /\ pc' = "done"
                /\ result' = response
           ELSE UNCHANGED <<pc, result>>
        /\ UNCHANGED <<self, heap, op, err, kw, payloadRef, payloadBefore, req,
                       attempts, calls, failures, page, all_sales,
                       offer_code_length, current_offer_codes, draws>>

\* The accessors that make one query and project the envelope.
AccessorReturns ==
    /\ op \in SimpleAccessors \cup PayloadAccessors
    /\ \E status \in StatusCodes, env \in Envelopes(ResourceKey(op), page) :
        /\ Receive(status)
        /\ IF Breaks(req.method, status)
           THEN LET r == Project(op, env) IN
                /\ sends' = sends + 1
                /\ served' = Append(served, [payload |-> req.payload, env |-> env])
                /\ err' = r.err
                /\ result' = r.val
                /\ pc' = IF r.err = "" THEN "done" ELSE "raised"
                /\ UNCHANGED <<self, heap, op, kw, payloadRef, payloadBefore, req,
                               attempts, calls, failures, page, all_sales,
                               offer_code_length, current_offer_codes, draws>>
           ELSE Again

\* retrieve_all_sales: "if success: all_sales += json_response['sales']".
Accumulate(acc, env) ==
    IF IsSuccess(env)
    THEN IF "sales" \in DOMAIN env
         THEN [err |-> "", val |-> acc \o env["sales"]]
         ELSE [err |-> "KeyError", val |-> acc]
    ELSE [err |-> "", val |-> acc]

\* retrieve_all_sales after each response: accumulate the page, then either
\* query the next page or return.  The server ends every series within
\* MaxPages pages.
AllSalesStep ==
    /\ op = "retrieve_all_sales"
    /\ \E status \in StatusCodes, env \in Envelopes("sales", page) :
        /\ ContinuePaging(env) => calls < MaxPages
        /\ Receive(status)
        /\ IF Breaks(req.method, status)
           THEN LET r == Accumulate(all_sales, env) IN
                /\ served' = Append(served, [payload |-> req.payload, env |-> env])
                /\ all_sales' = r.val
                /\ UNCHANGED <<self, op, payloadRef, payloadBefore, offer_code_length,
                               current_offer_codes, draws>>
                /\ IF r.err # ""
                   THEN /\ pc' = "raised"
                        /\ err' = r.err
                        /\ sends' = sends + 1
                        /\ UNCHANGED <<heap, result, kw, req, attempts, calls, failures,
                                       page>>
                   ELSE IF ContinuePaging(env)
                   THEN /\ page' = NextPage(page)
                        /\ heap' = [heap EXCEPT
                                      ![payloadRef] = Mapping(SetItem(@.d, "page", page'))]
                        /\ Dispatch(<<"/v2/sales">>, Get(heap'[payloadRef]))
                        /\ UNCHANGED result
                   ELSE /\ pc' = "done"
                        /\ result' = Value("list", all_sales')
                        /\ sends' = sends + 1
                        /\ UNCHANGED <<heap, err, kw, req, attempts, calls, failures, page>>
           ELSE Again

\* retrieve_all_offer_code_names_for_a_product, called directly or by
\* generate_new_offer_code_for_a_product when no names were supplied.
OfferCodeNamesStep ==
    /\ op \in OfferCodeOps
    /\ \E status \in StatusCodes, env \in Envelopes("offer_codes", page) :
        /\ Receive(status)
        /\ IF Breaks(req.method, status)
           THEN LET r == Project("retrieve_offer_codes_for_product", env)
                    names == Names(r.val.v)
                IN
                /\ sends' = sends + 1
                /\ served' = Append(served, [payload |-> req.payload, env |-> env])
                /\ err' = r.err
                /\ UNCHANGED <<self, heap, op, kw, payloadRef, payloadBefore, req,
                               attempts, calls, failures, page, all_sales,
                               offer_code_length, draws>>
                /\ IF r.err # ""
                   THEN /\ pc' = "raised"
                        /\ UNCHANGED <<result, current_offer_codes>>
                   ELSE IF op = "retrieve_all_offer_code_names_for_a_product"
                   THEN /\ pc' = "done"
                        /\ result' = Value("list", names)
                        /\ UNCHANGED current_offer_codes
                   ELSE /\ current_offer_codes' = names
                        /\ pc' = IF names # <<>> THEN "drawing" ELSE "done"
                        /\ UNCHANGED result
           ELSE Again

\* generate_new_offer_code_for_a_product: one random string is drawn; it is
\* returned unless it collides with a current name.
Draw ==
    \E code \in RandomCodes(offer_code_length) :
        /\ pc = "drawing"
        /\ Len(draws) < MaxDraws
        /\ draws' = Append(draws, code)
        /\ IF Collides(code, current_offer_codes)
           THEN UNCHANGED <<pc, result>>
           ELSE /\ pc' = "done"
                /\ result' = Value("str", code)
        /\ UNCHANGED <<self, heap, op, err, kw, payloadRef, payloadBefore, req, attempts,
                       calls, sends, failures, lastSent, pageArg, page, all_sales,
                       served, offer_code_length, current_offer_codes>>

\* The method returned or raised; the caller goes on and drops its dict.
\* After sys.exit(1) (pc = "exited") nothing runs any more.
Return ==
    /\ pc \in {"done", "raised"}
    /\ pc' = "idle"
    /\ op' = "none"
    /\ err' = ""
    /\ result' = PyNone
    /\ kw' = NoKw
    /\ payloadRef' = "none"
    /\ payloadBefore' = Mapping(EmptyDict)
    /\ req' = NoReq
    /\ attempts' = 0
    /\ calls' = 0
    /\ sends' = 0
    /\ failures' = 0
    /\ lastSent' = NoSent
    /\ pageArg' = 0
    /\ page' = 0
    /\ all_sales' = <<>>
    /\ served' = <<>>
    /\ offer_code_length' = 0
    /\ current_offer_codes' = <<>>
    /\ draws' = <<>>
    /\ heap' = [heap EXCEPT !["caller"] = Mapping(EmptyDict)]
    /\ UNCHANGED self

Next ==
    \/ ApiQuery
    \/ RetrieveAllProducts
    \/ RetrieveProductInfo
    \/ RetrieveOfferCodesForProduct
    \/ RetrieveOfferCodeDetailsForProduct
    \/ RetrieveAllOfferCodeNamesForAProduct
    \/ CreateOfferCodeForProduct
    \/ RetrieveSales
    \/ RetrieveAllSales
    \/ GenerateNewOfferCodeForAProduct
    \/ SendFails
    \/ ApiQueryReturns
    \/ AccessorReturns
    \/ AllSalesStep
    \/ OfferCodeNamesStep
    \/ Draw
    \/ Return

Spec == Init /\ [][Next]_vars

\* The dispatcher alone, called directly, for every configured max_attempts.
NextDispatcher ==
    \/ ApiQuery
    \/ SendFails
    \/ ApiQueryReturns
    \/ Return

SpecDispatcher == InitDispatcher /\ [][NextDispatcher]_vars


(* ------------------------------ properties ---------------------------- *)
Last(q) == q[Len(q)]

\* The envelope carries a next_page_url that is not null.
HasNextPage(env) == "next_page_url" \in DOMAIN env /\ env["next_page_url"] # NullUrl

\* The sales of the first n pages answered, those with success false left out.
RECURSIVE SalesOfPages(_, _)
SalesOfPages(pages, n) ==
    IF n = 0 THEN <<>>
    ELSE SalesOfPages(pages, n - 1)
            \o (IF pages[n].env["success"] THEN pages[n].env["sales"] ELSE <<>>)

\* The code is one of the names the generator works against.
IsCurrent(code) == \E i \in 1..Len(current_offer_codes) : current_offer_codes[i] = code

\* The seven accessors, those among them that return a single resource, and
\* those whose source initialises the return value to None.
Accessors == SimpleAccessors \cup PayloadAccessors \cup {"retrieve_all_sales"}
SingleResource == {"retrieve_product_info", "retrieve_offer_code_details_for_product",
                   "create_offer_code_for_product"}
Refused(env) == ~env["success"]

ReturnsNone == {"retrieve_all_products", "retrieve_product_info",
                "retrieve_offer_code_details_for_product"}

\* C1: in a direct api_query call whose sends have so far raised fewer than
\* max_attempts transport exceptions, the process has not exited and no
\* transport exception has left the call; while the call is still sending,
\* every send made has raised; once a send got a response, the call returned
\* exactly that response after exactly failures + 1 sends.
C1_RetryThenResponse ==
    (op = "api_query" /\ failures < self.max_attempts) =>
        /\ pc # "exited"
        /\ (pc = "raised" => err \notin TransportExceptions)
        /\ (pc = "sending" => sends = failures /\ served = <<>>)
        /\ (pc = "done" => /\ sends = failures + 1
                           /\ Len(served) = 1
                           /\ result = served[1].response)

C1_Witness ==
    /\ op = "api_query"
    /\ pc = "done"
    /\ self.max_attempts = 3
    /\ failures = 2
    /\ sends = 3
    /\ req.method = "DELETE"

\* C2: a call whose sends keep raising transport exceptions exits after
\* exactly max_attempts sends: no call makes more than max_attempts sends,
\* and no call returns a response after max_attempts failures.
C2_ExitAfterMaxAttempts ==
    /\ sends <= self.max_attempts
    /\ (pc = "exited" => sends = self.max_attempts)
    /\ (pc = "done" /\ op = "api_query" => failures < self.max_attempts)

\* C3 as stated: every request sent carries the client's own token in its
\* access_token field, whatever the caller's payload holds.
C3_TokenNeverOverridden ==
    lastSent # NoSent =>
        /\ "access_token" \in DOMAIN lastSent.payload
        /\ lastSent.payload["access_token"] = self.token

\* C3 amended: every request sent, on the first attempt and on every retry,
\* carries an access_token field; it is the client's token unless the
\* caller's payload holds an access_token key, whose value is then sent.
C3_TokenUnlessCallerOverrides ==
    lastSent # NoSent =>
        /\ "access_token" \in DOMAIN lastSent.payload
        /\ lastSent.payload["access_token"] =
               IF "access_token" \in DOMAIN kw.payload.d
               THEN kw.payload.d["access_token"]
               ELSE self.token

C3_Witness ==
    /\ op = "api_query"
    /\ pc = "sending"
    /\ attempts = 2
    /\ sends = 2
    /\ kw.payload.d = ("access_token" :> "other")
    /\ lastSent.payload["access_token"] = "other"
    /\ lastSent.method = "PUT"

\* C4: a direct api_query call whose headers or payload argument is not a
\* mapping raises ValueError and sends nothing.
C4_NonMappingIsValueError ==
    (op = "api_query" /\ (~kw.headers.isdict \/ ~kw.payload.isdict)) =>
        /\ pc = "raised"
        /\ err = "ValueError"
        /\ sends = 0

C6_NeverAnExistingCode ==
    op = "generate_new_offer_code_for_a_product" =>
        /\ \A i \in 1..(Len(draws) - 1) : IsCurrent(draws[i])
        /\ (pc = "drawing" => \A i \in 1..Len(draws) : IsCurrent(draws[i]))
        /\ (pc = "done" /\ result.t = "str" => ~IsCurrent(result.v))
        /\ (pc = "done" /\ draws # <<>> => /\ result = Value("str", Last(draws))
                                          /\ ~IsCurrent(Last(draws)))

C6_Witness ==
    /\ op = "generate_new_offer_code_for_a_product"
    /\ pc = "done"
    /\ Len(draws) = 3
    /\ draws[1] # draws[2]
    /\ calls = 1
    /\ result.t = "str"

\* C7: generate_new_offer_code_for_a_product always returns a string of
\* offer_code_length characters of the alphabet.
C7_AlwaysACode ==
    (op = "generate_new_offer_code_for_a_product" /\ pc = "done") =>
        /\ result.t = "str"
        /\ Len(result.v) = offer_code_length
        /\ \A i \in 1..Len(result.v) : result.v[i] \in Alphabet

\* C8 as stated: an envelope with success false makes the accessor return
\* None when it returns a single resource and an empty sequence when it
\* returns a collection, and never makes it raise.
C8_NoneOrEmptyByKind ==
    (op \in Accessors /\ served # <<>> /\ Refused(Last(served).env)) =>
        /\ ~(pc = "raised" /\ err \in {"KeyError", "TypeError", "ValueError"})
        /\ (op # "retrieve_all_sales" => pc = "done")
        /\ (pc = "done" /\ (\A i \in 1..Len(served) : Refused(served[i].env)) =>
                IF op \in SingleResource
                THEN result.t = "None"
                ELSE result.t = "list" /\ Len(result.v) = 0)

\* C8 amended: an envelope with success false never makes the accessor raise
\* and makes it return its default: None for retrieve_all_products,
\* retrieve_product_info and retrieve_offer_code_details_for_product, an
\* empty sequence for retrieve_offer_codes_for_product,
\* create_offer_code_for_product and retrieve_sales, and for
\* retrieve_all_sales when every page answered has success false.
C8_DefaultOfEachAccessor ==
    (op \in Accessors /\ served # <<>> /\ Refused(Last(served).env)) =>
        /\ ~(pc = "raised" /\ err \in {"KeyError", "TypeError", "ValueError"})
        /\ (op # "retrieve_all_sales" => pc = "done")
        /\ (pc = "done" /\ (\A i \in 1..Len(served) : Refused(served[i].env)) =>
                IF op \in ReturnsNone
                THEN result.t = "None"
                ELSE result.t = "list" /\ Len(result.v) = 0)

C8_Witness ==
    /\ op = "create_offer_code_for_product"
    /\ pc = "done"
    /\ Refused(Last(served).env)
    /\ "offer_code" \in DOMAIN Last(served).env
    /\ result.t = "list"

\* C9: calls leave nothing behind: the client's attributes are those it was
\* constructed with, the dict passed to (or defaulted by) retrieve_sales and
\* retrieve_all_sales holds after the call what it held before, and between
\* calls the default payloads are as they were defined.
C9_NothingLeftBehind ==
    /\ self = Client(DefaultMaxAttempts)
    /\ (pc = "done" /\ op \in {"retrieve_sales", "retrieve_all_sales"} =>
            heap[payloadRef] = payloadBefore)
    /\ (pc = "idle" => \A o \in DefaultObjects : heap[o] = Mapping(EmptyDict))

\* C10: in a direct api_query call a send that gets a response, whatever its
\* status, ends the call at once: the response is returned, nothing is raised
\* and the attempt counter is left alone; while the call is still sending,
\* every send made has raised a transport exception.
C10_ResponseEndsLoop ==
    /\ [](op = "api_query" /\ pc = "sending" => sends = failures /\ attempts = failures)
    /\ [][(op = "api_query" /\ Len(served') = Len(served) + 1) =>
              /\ pc' = "done"
              /\ result' = Last(served').response
              /\ Last(served').response.v.status_code \in StatusCodes
              /\ attempts' = attempts
              /\ sends' = sends + 1
              /\ err' = ""]_vars

C10_Witness ==
    /\ op = "api_query"
    /\ pc = "done"
    /\ req.method = "POST"
    /\ result.v.status_code = 500
    /\ ~ExpectedStatus(req.method, result.v.status_code)
    /\ attempts = 1
    /\ sends = 2

====
